---- MODULE Spec2Model ----
(***************************************************************************)
(* A model of rikuesuto, a small node.js http client:                      *)
(*   - Headers  (util/Headers.ts): a case-insensitive header multimap on   *)
(*     top of URLSearchParams, with validation done by a Proxy;            *)
(*   - Request  (Request.ts): the builder and exec(), the request/response *)
(*     exchange with redirects, timeout and abort signal;                  *)
(*   - Response (Response.ts): the buffer filled chunk by chunk, and the   *)
(*     getters ok and json;                                                *)
(*   - Blob     (util/Blob.ts): a list of Buffers and Blobs, and slice().   *)
(* Strings are sequences of character codes, so that letter case, the      *)
(* token grammar and the sort order of names are computed, not assumed.    *)
(***************************************************************************)
EXTENDS Integers, Sequences, FiniteSets, TLC

VARIABLES
    opts,       \* the module-level object defaultRequestOptions
    reqs,       \* the Request objects constructed so far, in order
    built,      \* number of option keys and builder calls the caller has used
    attempts,   \* one record per exec() call: connection, timer, listener, promise
    sigAborted, \* AbortSignal.aborted of the one abort signal
    table,      \* a Headers instance exercised on its own (its URLSearchParams list)
    ret,        \* the last call made on `table` and what it returned or threw
    prevOp,     \* the call made on `table` before that one
    blob,       \* a Blob exercised on its own
    blobOp,     \* the call that produced `blob`, with the Blob it was made on
    response    \* a Response exercised on its own, with the last getter read

vars == <<opts, reqs, built, attempts, sigAborted, table, ret, prevOp,
          blob, blobOp, response>>

engineVars == <<opts, reqs, built, attempts, sigAborted>>
headerVars == <<table, ret, prevOp>>
libVars == <<blob, blobOp, response>>

(***************************************************************************)
(* Bounds of the model.                                                    *)
(***************************************************************************)
MaxConfig == 2
MaxAttempts == 3
MaxChunks == 2
MaxPairs == 3
MaxParts == 2
MaxBlobOps == 3
MaxDepth == 1
MaxBody == 2

(***************************************************************************)
(* String literals of the source, as character codes.                      *)
(***************************************************************************)
StrUserAgent == <<117, 115, 101, 114, 45, 97, 103, 101, 110, 116>>
StrContentType == <<99, 111, 110, 116, 101, 110, 116, 45, 116, 121, 112, 101>>
StrContentEncoding == <<99, 111, 110, 116, 101, 110, 116, 45, 101, 110, 99, 111, 100, 105, 110, 103>>
StrContentEncodingMixed == <<67, 111, 110, 116, 101, 110, 116, 45, 69, 110, 99, 111, 100, 105, 110, 103>>
StrLocation == <<76, 111, 99, 97, 116, 105, 111, 110>>
StrApplicationJson == <<97, 112, 112, 108, 105, 99, 97, 116, 105, 111, 110, 47, 106, 115, 111, 110>>
StrGzip == <<103, 122, 105, 112>>
StrDeflate == <<100, 101, 102, 108, 97, 116, 101>>
StrGZipMixed == <<71, 90, 105, 112>>
StrNext == <<47, 110, 101, 120, 116>>
StrXA == <<120, 45, 97>>
StrXAUpper == <<88, 45, 65>>
StrOne == <<49>>
StrBadName == <<97, 32, 98>>
StrBadValue == <<97, 10>>
RIKUESUTO_USER_AGENT == <<82, 105, 107, 117, 101, 115, 117, 116, 111>>

(***************************************************************************)
(* String.prototype.toLowerCase on Latin-1 text, Array.prototype.join and  *)
(* the code-unit order that URLSearchParams.sort uses.                     *)
(***************************************************************************)
LowerChar(c) ==
    IF c \in 65..90 \/ (c \in 192..222 /\ c # 215) THEN c + 32 ELSE c

toLowerCase(s) == [i \in DOMAIN s |-> LowerChar(s[i])]

RECURSIVE join(_, _)
join(values, sep) ==
    IF Len(values) = 0 THEN <<>>
    ELSE IF Len(values) = 1 THEN values[1]
    ELSE values[1] \o sep \o join(Tail(values), sep)

RECURSIVE StrLess(_, _)
StrLess(a, b) ==
    IF Len(b) = 0 THEN FALSE
    ELSE IF Len(a) = 0 THEN TRUE
    ELSE IF a[1] # b[1] THEN a[1] < b[1]
    ELSE StrLess(Tail(a), Tail(b))

(***************************************************************************)
(* validateHeaderName and validateHeaderValue, as the predicates whose     *)
(* failure makes them throw.                                               *)
(***************************************************************************)
TokenChar(c) ==
    \/ c \in 48..57 \/ c \in 65..90 \/ c \in 97..122 \/ c = 95
    \/ c \in {94, 96, 45, 33, 35, 36, 37, 38, 34, 42, 43, 46, 124, 126}

\* a validateHeaderName that accepts every name that is not empty
validateHeaderNameLax(name) == Len(name) > 0

validateHeaderName(name) ==
    Len(name) > 0 /\ \A i \in DOMAIN name : TokenChar(name[i])

validateHeaderValue(value) ==
    \A i \in DOMAIN value :
        value[i] = 9 \/ value[i] \in 32..126 \/ value[i] \in 128..255

\* what validateHeaderName / validateHeaderValue throw for a call, "" if nothing
Thrown(name, value) ==
    IF ~validateHeaderName(name) THEN "ERR_INVALID_HTTP_TOKEN"
    ELSE IF ~validateHeaderValue(value) THEN "ERR_INVALID_CHAR"
    ELSE ""

(***************************************************************************)
(* URLSearchParams, the base class of Headers: an ordered list of          *)
(* <<name, value>> pairs.                                                  *)
(***************************************************************************)
SelectIdx(list, n) == {i \in DOMAIN list : list[i][1] = n}

RECURSIVE Filter(_, _, _)
Filter(list, keep, i) ==
    IF i > Len(list) THEN <<>>
    ELSE (IF i \in keep THEN <<list[i]>> ELSE <<>>) \o Filter(list, keep, i + 1)

USPAppend(list, n, v) == Append(list, <<n, v>>)

USPGetAll(list, n) ==
    LET kept == Filter(list, SelectIdx(list, n), 1)
    IN  [i \in DOMAIN kept |-> kept[i][2]]

USPHas(list, n) == SelectIdx(list, n) # {}

USPDelete(list, n) == Filter(list, DOMAIN list \ SelectIdx(list, n), 1)

USPSet(list, n, v) ==
    IF SelectIdx(list, n) = {} THEN Append(list, <<n, v>>)
    ELSE LET first == CHOOSE i \in SelectIdx(list, n) :
                          \A j \in SelectIdx(list, n) : i <= j
             upd == [list EXCEPT ![first] = <<n, v>>]
         IN  Filter(upd, (DOMAIN list \ SelectIdx(list, n)) \cup {first}, 1)

\* insertion of one pair into a list already sorted by name, after its equals
RECURSIVE InsertSorted(_, _)
InsertSorted(sorted, pair) ==
    IF Len(sorted) = 0 THEN <<pair>>
    ELSE IF StrLess(pair[1], sorted[1][1]) THEN <<pair>> \o sorted
    ELSE <<sorted[1]>> \o InsertSorted(Tail(sorted), pair)

RECURSIVE SortFrom(_, _)
SortFrom(list, acc) ==
    IF Len(list) = 0 THEN acc
    ELSE SortFrom(Tail(list), InsertSorted(acc, list[1]))

\* URLSearchParams.prototype.sort: stable, by name, in code-unit order
USPSort(list) == SortFrom(list, <<>>)

RECURSIVE Dedupe(_, _)
Dedupe(names, seen) ==
    IF Len(names) = 0 THEN <<>>
    ELSE IF names[1] \in seen THEN Dedupe(Tail(names), seen)
    ELSE <<names[1]>> \o Dedupe(Tail(names), seen \cup {names[1]})

(***************************************************************************)
(* class Headers.  A call through the Proxy validates the name (and the    *)
(* value), lowercases the name and runs the URLSearchParams method; these  *)
(* operators give the list after a call that did not throw.                *)
(***************************************************************************)
None == [some |-> FALSE, str |-> <<>>]
Some(s) == [some |-> TRUE, str |-> s]

\* an append() that stores the name as it was given
Headers_appendAsGiven(h, name, value) == USPAppend(h, name, value)

Headers_append(h, name, value) == USPAppend(h, toLowerCase(name), value)

\* a set() that adds the pair and removes nothing
Headers_setAppending(h, name, value) == USPAppend(h, toLowerCase(name), value)

Headers_set(h, name, value) == USPSet(h, toLowerCase(name), value)

Headers_delete(h, name) == USPDelete(h, toLowerCase(name))

Headers_has(h, name) == USPHas(h, toLowerCase(name))

Headers_getAll(h, name) == USPGetAll(h, toLowerCase(name))

\* a keys() that leaves out target.sort()
Headers_keysUnsorted(h) == Dedupe([i \in DOMAIN h |-> h[i][1]], {})

\* keys() sorts the underlying list in place and returns the distinct names
Headers_keys(h) ==
    LET sorted == USPSort(h)
    IN  Dedupe([i \in DOMAIN sorted |-> sorted[i][1]], {})

\* a get() that looks the name up as given, without lowercasing it
Headers_getCaseSensitive(h, name) ==
    LET values == USPGetAll(h, name)
        value == join(values, <<44, 32>>)
    IN  IF Len(values) = 0 THEN None
        ELSE IF toLowerCase(name) = StrContentEncoding
             THEN Some(toLowerCase(value))
             ELSE Some(value)

Headers_get(h, name) ==
    LET values == Headers_getAll(h, name)
        value == join(values, <<44, 32>>)
    IN  IF Len(values) = 0 THEN None
        ELSE IF toLowerCase(name) = StrContentEncoding
             THEN Some(toLowerCase(value))
             ELSE Some(value)

\* raw(): for each key, in keys() order, the full list of its values
Headers_raw(h) ==
    LET keys == Headers_keys(h)
    IN  [i \in DOMAIN keys |-> <<keys[i], Headers_getAll(USPSort(h), keys[i])>>]

\* new Headers(init), for an init the constructor does not throw on:
\* a Headers init is read through raw(), a plain object through Object.entries
Headers_new(init) ==
    LET result == IF init.kind = "Headers" THEN USPSort(init.pairs) ELSE init.pairs
    IN  [i \in DOMAIN result |-> <<toLowerCase(result[i][1]), result[i][2]>>]

\* what new Headers(init) throws, "" if nothing: the pairs of an iterable
\* are first checked to be tuples of two (lines 63-69), then the pairs are
\* validated one after the other (lines 78-80), so the first bad pair throws
Headers_newThrown(init) ==
    LET result == IF init.kind = "Headers" THEN USPSort(init.pairs) ELSE init.pairs
        bad == {i \in DOMAIN result : Thrown(result[i][1], result[i][2]) # ""}
    IN  IF init.kind = "iterable" /\ \E i \in DOMAIN result : Len(result[i]) # 2
        THEN "ERR_NOT_A_TUPLE"
        ELSE IF bad = {} THEN ""
        ELSE LET first == CHOOSE i \in bad : \A j \in bad : i <= j
             IN  Thrown(result[first][1], result[first][2])

RECURSIVE PairUp(_)
PairUp(flat) ==
    IF Len(flat) = 0 THEN <<>>
    ELSE IF Len(flat) = 1 THEN <<flat>>
    ELSE <<SubSeq(flat, 1, 2)>> \o PairUp(SubSeq(flat, 3, Len(flat)))

\* String(undefined), the value of a name left without a value
StrUndefined == <<117, 110, 100, 101, 102, 105, 110, 101, 100>>

\* a fromRawHeaders without the filter: every pair is kept
fromRawHeadersKeptAll(flat) == PairUp(flat)

\* lines 208-221: the pairs that the filter of fromRawHeaders keeps; a list
\* of odd length ends in a pair of one element, whose value is undefined
fromRawHeadersKept(flat) ==
    LET pairs == PairUp(flat)
        good == {i \in DOMAIN pairs :
                    /\ validateHeaderName(pairs[i][1])
                    /\ validateHeaderValue(IF Len(pairs[i]) = 2 THEN pairs[i][2]
                                           ELSE StrUndefined)}
    IN  Filter(pairs, good, 1)

\* what fromRawHeaders throws, "" if nothing: whatever the constructor throws
fromRawHeadersThrown(flat) ==
    Headers_newThrown([kind |-> "iterable", pairs |-> fromRawHeadersKept(flat)])

fromRawHeaders(flat) ==
    Headers_new([kind |-> "iterable", pairs |-> fromRawHeadersKept(flat)])

(***************************************************************************)
(* JavaScript values of the option fields that hold a boolean, a number or *)
(* undefined, with truthiness and strict equality.                         *)
(***************************************************************************)
Undefined == [t |-> "undefined", b |-> FALSE, n |-> 0]
Bool(b) == [t |-> "boolean", b |-> b, n |-> 0]
Num(n) == [t |-> "number", b |-> FALSE, n |-> n]

Truthy(v) == (v.t = "boolean" /\ v.b) \/ (v.t = "number" /\ v.n # 0)

StrictEq(v, w) == v = w

\* a string or null, as get() returns it: null and "" are falsy
TruthyStr(o) == o.some /\ Len(o.str) > 0

\* request bodies: null, undefined, the plain object { a: 1 }, a Buffer of
\* some bytes or a string of some characters
TruthyBody(body) == body \notin {"null", "undefined"}

\* typeof body === "object"
isObject(body) == body \in {"null", "object", "buffer"}

\* body instanceof Object
InstanceOfObject(body) == body \in {"object", "buffer"}

\* Method.toUpperCase() over the Method type
toUpperCase(m) == [get |-> "GET", post |-> "POST"][m]

(***************************************************************************)
(* URLs: the path and the list of search parameters.                       *)
(***************************************************************************)
URL(path) == [path |-> path, search |-> <<>>]

\* new URL(location, base) for a location that is an absolute path
URLResolve(location, base) == [path |-> location, search |-> <<>>]

RequestUrl == URL(<<47, 97>>)

(***************************************************************************)
(* defaultRequestOptions and Object.assign(defaultRequestOptions, options) *)
(***************************************************************************)
defaultRequestOptions ==
    [ headers |-> [kind |-> "object", pairs |-> <<>>],
      query |-> <<>>,
      method |-> "get",
      body |-> "null",
      follow |-> Bool(FALSE),
      compressData |-> Bool(FALSE),
      timeout |-> Undefined,
      signal |-> "undefined" ]

OptKeys ==
    {"headers", "query", "method", "body", "follow", "compressData", "timeout", "signal"}

MaxFollow == 1

\* the option objects callers pass: for each key present, one of these values
OptionValues ==
    [ headers : {[kind |-> "object", pairs |-> <<<<StrXAUpper, StrOne>>>>]},
      query : {<<<<StrXA, StrOne>>>>},
      method : {"post"},
      body : {"object"},
      follow : {Bool(TRUE)} \cup {Num(n) : n \in 1..MaxFollow},
      compressData : {Bool(TRUE)},
      timeout : {Num(50)},
      signal : {"sig"} ]

\* Object.assign(target, source): the keys in `present` are the own keys of source
ObjectAssign(target, present, source) ==
    [k \in DOMAIN target |-> IF k \in present THEN source[k] ELSE target[k]]

(***************************************************************************)
(* Promises: the first resolve or reject settles, later ones do nothing.   *)
(***************************************************************************)
Pending == [state |-> "pending", error |-> "", url |-> URL(<<>>), code |-> 0, res |-> 0]

Fulfilled(res) == [Pending EXCEPT !.state = "fulfilled", !.res = res]

Rejected(error, url, code) ==
    [Pending EXCEPT !.state = "rejected", !.error = error, !.url = url, !.code = code]

\* an HttpError that does not keep the status code
HttpErrorWithoutStatus(code, url) == Rejected("HttpError", url, 0)

\* reject(new HttpError(code, message, url)): statusCode and url are kept
HttpError(code, url) == Rejected("HttpError", url, code)

\* reject(e) for the error e that the transport emitted
TransportError == Rejected("TransportError", URL(<<>>), 0)

\* a promise whose later resolve or reject would overwrite the outcome
SettleAgain(promise, outcome) == outcome

Settle(promise, outcome) == IF promise.state = "pending" THEN outcome ELSE promise

(***************************************************************************)
(* zlib streams, as transforms of a byte sequence that are not the         *)
(* identity: inflate undoes deflate, gunzip undoes gzip.                   *)
(***************************************************************************)
Gunzip(bytes) == [i \in DOMAIN bytes |-> (bytes[i] + 100) % 256]
Inflate(bytes) == [i \in DOMAIN bytes |-> (bytes[i] + 50) % 256]
Deflate(bytes) == [i \in DOMAIN bytes |-> (bytes[i] + 206) % 256]

Decompress(encoding, bytes) ==
    IF encoding = Some(StrGzip) THEN Gunzip(bytes)
    ELSE IF encoding = Some(StrDeflate) THEN Inflate(bytes)
    ELSE bytes

(***************************************************************************)
(* class Request.                                                          *)
(***************************************************************************)
\* the Request that `new Request(url, options)` builds, given the object
\* that Object.assign returned (defaultRequestOptions itself, updated)
NewRequest(url, options) ==
    [ url |-> [url EXCEPT !.search = url.search \o options.query],
      redirects |-> 0,
      method |-> IF options.method = "undefined" THEN "get" ELSE options.method,
      body |-> options.body,
      signal |-> options.signal,
      headers |-> Headers_new(options.headers) ]

\* an exec() that adds the inferred content-type without looking for one
ExecHeadersAlways(rq) ==
    LET h1 == IF ~TruthyStr(Headers_get(rq.headers, StrUserAgent))
              THEN Headers_set(rq.headers, StrUserAgent, RIKUESUTO_USER_AGENT)
              ELSE rq.headers
    IN  IF TruthyBody(rq.body) /\ isObject(rq.body)
        THEN Headers_append(h1, StrContentType, StrApplicationJson)
        ELSE h1

\* exec(), lines 212-223: the user-agent default and the inferred content-type
ExecHeaders(rq) ==
    LET h1 == IF ~TruthyStr(Headers_get(rq.headers, StrUserAgent))
              THEN Headers_set(rq.headers, StrUserAgent, RIKUESUTO_USER_AGENT)
              ELSE rq.headers
    IN  IF ~TruthyStr(Headers_get(h1, StrContentType)) /\ TruthyBody(rq.body)
           /\ isObject(rq.body)
        THEN Headers_append(h1, StrContentType, StrApplicationJson)
        ELSE h1

\* what req.write() is given, lines 311-319
WrittenBody(body) ==
    IF ~TruthyBody(body) THEN [enc |-> "none", body |-> body]
    ELSE IF InstanceOfObject(body) THEN [enc |-> "JSON.stringify", body |-> body]
    ELSE [enc |-> "raw", body |-> body]

\* the record of one exec() call, from the executor of the promise, lines
\* 225-322, run to its end: `rq` is the Request after ExecHeaders and raw(),
\* `options` is this._options, `signalled` is this._signal.aborted
NewAttempt(r, rq, options, signalled, parent) ==
    LET early == rq.signal # "undefined" /\ signalled
    IN  [ req |-> r,
          parent |-> parent,
          sent |-> [ method |-> toUpperCase(rq.method),
                     url |-> rq.url,
                     headers |-> Headers_raw(rq.headers),
                     body |-> IF early THEN WrittenBody("undefined")
                              ELSE WrittenBody(rq.body) ],
          wired |-> ~early,
          conn |-> "open",
          aborted |-> early,
          aborts |-> IF early THEN 1 ELSE 0,
          removals |-> IF early THEN 1 ELSE 0,
          signal |-> rq.signal,
          timer |-> IF ~early /\ Truthy(options.timeout) THEN "armed" ELSE "none",
          listener |-> ~early /\ rq.signal # "undefined",
          resp |-> "none",
          status |-> 0,
          encoding |-> None,
          location |-> None,
          piped |-> "none",
          buf |-> <<>>,
          wire |-> <<>>,
          drained |-> FALSE,
          hop |-> 0,
          awaiting |-> FALSE,
          promise |-> IF early THEN Rejected("AbortError", URL(<<>>), 0) ELSE Pending ]

\* the Request as exec() leaves it: headers completed, then sorted by raw()
AfterExec(rq) == [rq EXCEPT !.headers = USPSort(ExecHeaders(rq))]

\* this._signal?.removeEventListener("abort", aborted), lines 245 and 288:
\* `removals` counts the calls
removeEventListener(att) ==
    [att EXCEPT !.listener = FALSE,
                !.removals = IF att.signal # "undefined" THEN @ + 1 ELSE @]

\* a finalize() that forgets req.abort()
finalizeWithoutAbort(att) == removeEventListener(att)

\* finalize(), lines 243-246: `aborts` counts the calls of req.abort()
finalize(att) == [removeEventListener(att) EXCEPT !.aborted = TRUE, !.aborts = @ + 1]

\* aborted(), lines 248-254
aborted(att) ==
    [finalize(att) EXCEPT
        !.promise = Settle(att.promise, Rejected("AbortError", URL(<<>>), 0))]

\* `resolve(await req.exec())`, line 279: the continuation that runs once the
\* hop's promise has settled; a rejection is thrown inside the async handler
\* of the "response" event, where nothing catches it
AwaitHop(att, inner) ==
    [att EXCEPT !.awaiting = FALSE,
                !.promise = IF inner.state = "fulfilled"
                            THEN Settle(att.promise, inner)
                            ELSE att.promise]

\* the continuations are microtasks: they run, innermost hop first, before
\* any other timer or transport event is handled
RECURSIVE RunContinuations(_, _)
RunContinuations(atts, a) ==
    IF a = 0 THEN atts
    ELSE IF atts[a].awaiting /\ atts[atts[a].hop].promise.state # "pending"
         THEN RunContinuations(
                  [atts EXCEPT ![a] = AwaitHop(atts[a], atts[atts[a].hop].promise)],
                  a - 1)
         ELSE RunContinuations(atts, a - 1)

Settled(atts) == RunContinuations(atts, Len(atts))

(***************************************************************************)
(* class Blob.  A part is a Buffer or a Blob; both are records of the same *)
(* shape: a Buffer holds bytes, a Blob holds parts and the size it claims. *)
(***************************************************************************)
Min(a, b) == IF a < b THEN a ELSE b
Max(a, b) == IF a > b THEN a ELSE b

Buffer(bytes) == [isBlob |-> FALSE, size |-> Len(bytes), bytes |-> bytes, parts |-> <<>>]

RECURSIVE SumSizes(_)
SumSizes(parts) ==
    IF Len(parts) = 0 THEN 0 ELSE parts[1].size + SumSizes(Tail(parts))

\* new Blob(parts), lines 317-348, for parts that are Buffers or Blobs
Blob_new(parts) ==
    [isBlob |-> TRUE, size |-> SumSizes(parts), bytes |-> <<>>, parts |-> parts]

\* Buffer.prototype.slice(start, end): negative indices count from the end,
\* both are clamped to the buffer, an end before the start gives no bytes
Buffer_slice(bytes, start, end) ==
    LET len == Len(bytes)
        s == IF start < 0 THEN Max(len + start, 0) ELSE Min(start, len)
        e == IF end < 0 THEN Max(len + end, 0) ELSE Min(end, len)
    IN  IF e <= s THEN <<>> ELSE SubSeq(bytes, s + 1, e)

RECURSIVE Blob_slice(_, _, _)
RECURSIVE SliceParts(_, _, _, _, _, _, _)

\* the loop of slice(), lines 391-410, from part i on
SliceParts(parts, i, relativeStart, relativeEnd, span, added, blobParts) ==
    IF i > Len(parts) THEN blobParts
    ELSE LET part == parts[i]
             size == part.size
         IN  IF relativeStart # 0 /\ size <= relativeStart
             THEN SliceParts(parts, i + 1, relativeStart - size, relativeEnd - size,
                             span, added, blobParts)
             ELSE LET chunk == IF part.isBlob
                               THEN Blob_slice(part, relativeStart, Min(size, relativeEnd))
                               ELSE Buffer(Buffer_slice(part.bytes, relativeStart,
                                                        Min(size, relativeEnd)))
                      sum == added + chunk.size
                  IN  IF sum >= span THEN Append(blobParts, chunk)
                      ELSE SliceParts(parts, i + 1, 0, relativeEnd, span, sum,
                                      Append(blobParts, chunk))

\* a slice() whose size is the sum of the parts it collected
Blob_sliceSummed(b, start, end) ==
    LET size == b.size
        relativeStart == IF start < 0 THEN Max(size + start, 0) ELSE Min(start, size)
        relativeEnd == IF end < 0 THEN Max(size + end, 0) ELSE Min(end, size)
        span == Max(relativeEnd - relativeStart, 0)
    IN  Blob_new(SliceParts(b.parts, 1, relativeStart, relativeEnd, span, 0, <<>>))

\* slice(start, end), lines 380-416
Blob_slice(b, start, end) ==
    LET size == b.size
        relativeStart == IF start < 0 THEN Max(size + start, 0) ELSE Min(start, size)
        relativeEnd == IF end < 0 THEN Max(size + end, 0) ELSE Min(end, size)
        span == Max(relativeEnd - relativeStart, 0)
    IN  [isBlob |-> TRUE, size |-> span, bytes |-> <<>>,
         parts |-> SliceParts(b.parts, 1, relativeStart, relativeEnd, span, 0, <<>>)]

\* stream() / _read(), lines 367-372 and 421-425: the chunks in order
RECURSIVE Blob_stream(_)
Blob_stream(b) ==
    IF Len(b.parts) = 0 THEN <<>>
    ELSE (IF b.parts[1].isBlob THEN Blob_stream(b.parts[1])
          ELSE <<b.parts[1].bytes>>)
         \o Blob_stream([b EXCEPT !.parts = Tail(b.parts)])

\* the loop of data(), lines 441-445: Uint8Array.set throws a RangeError
\* when the chunk does not fit behind the offset
RECURSIVE DataFrom(_, _, _)
DataFrom(chunks, data, offset) ==
    IF Len(chunks) = 0 THEN [threw |-> "", bytes |-> data]
    ELSE IF offset + Len(chunks[1]) > Len(data)
         THEN [threw |-> "RangeError", bytes |-> <<>>]
         ELSE DataFrom(Tail(chunks),
                       [k \in DOMAIN data |->
                           IF k > offset /\ k <= offset + Len(chunks[1])
                           THEN chunks[1][k - offset] ELSE data[k]],
                       offset + Len(chunks[1]))

\* data(), lines 438-448: a zero-filled array of `size` bytes, then the loop
Blob_data(b) == DataFrom(Blob_stream(b), [k \in 1..b.size |-> 0], 0)

RECURSIVE Depth(_)
Depth(b) ==
    IF Len(b.parts) = 0 THEN 0
    ELSE Max(IF b.parts[1].isBlob THEN 1 + Depth(b.parts[1]) ELSE 0,
             Depth([b EXCEPT !.parts = Tail(b.parts)]))

(***************************************************************************)
(* class Response: the status code and headers of the message, the buffer  *)
(* filled by _chunk, and the getters ok, text and json.                    *)
(***************************************************************************)
StrContentTypeMixed == <<67, 111, 110, 116, 101, 110, 116, 45, 84, 121, 112, 101>>
StrTextPlain == <<116, 101, 120, 116, 47, 112, 108, 97, 105, 110>>

\* http.IncomingMessage.headers[name]: names lowercased by node
IncomingHeader(rawHeaders, name) ==
    LET pairs == PairUp(rawHeaders)
        hit == {i \in DOMAIN pairs : toLowerCase(pairs[i][1]) = name}
    IN  IF hit = {} THEN None ELSE Some(pairs[CHOOSE i \in hit : TRUE][2])

NewResponse(statusCode, rawHeaders) ==
    [statusCode |-> statusCode, rawHeaders |-> rawHeaders, buf |-> <<>>,
     read |-> "none", ok |-> FALSE,
     json |-> [threw |-> "", t |-> "undefined", n |-> 0]]

\* get ok, lines 56-58
Response_ok(res) == res.statusCode <= 200 /\ res.statusCode < 300

\* a _chunk() that puts the new data in front of the buffer
Response_chunkPrepended(res, data) == [res EXCEPT !.buf = data \o res.buf]

\* _chunk(data), lines 94-97
Response_chunk(res, data) == [res EXCEPT !.buf = res.buf \o data]

\* text(), lines 103-105: Buffer.toString decodes utf8; an ASCII byte is its
\* own character, a byte that starts no sequence decodes to U+FFFD
Response_text(res) ==
    [k \in DOMAIN res.buf |-> IF res.buf[k] < 128 THEN res.buf[k] ELSE 65533]

RECURSIVE DigitsValue(_)
DigitsValue(s) ==
    IF Len(s) = 0 THEN 0
    ELSE 10 * DigitsValue(SubSeq(s, 1, Len(s) - 1)) + (s[Len(s)] - 48)

\* JSON.parse on the texts the model produces: a number without leading
\* zero, the empty object, the literal null; anything else is a SyntaxError
JSONParse(text) ==
    IF Len(text) > 0 /\ (\A k \in DOMAIN text : text[k] \in 48..57)
       /\ (Len(text) = 1 \/ text[1] # 48)
    THEN [threw |-> "", t |-> "number", n |-> DigitsValue(text)]
    ELSE IF text = <<123, 125>> THEN [threw |-> "", t |-> "object", n |-> 0]
    ELSE IF text = <<110, 117, 108, 108>> THEN [threw |-> "", t |-> "null", n |-> 0]
    ELSE [threw |-> "SyntaxError", t |-> "undefined", n |-> 0]

JSNull == [threw |-> "", t |-> "null", n |-> 0]

\* a json getter that parses whatever the content-type is
Response_jsonAnyType(res) ==
    IF res.statusCode # 204 THEN JSONParse(Response_text(res)) ELSE JSNull

\* get json, lines 70-74
Response_json(res) ==
    IF res.statusCode # 204
       /\ IncomingHeader(res.rawHeaders, StrContentType) = Some(StrApplicationJson)
    THEN JSONParse(Response_text(res))
    ELSE JSNull

(***************************************************************************)
(* The state after the module is loaded.                                   *)
(***************************************************************************)
NoCall ==
    [op |-> "new", name |-> <<>>, value |-> <<>>, fresh |-> FALSE,
     threw |-> "", out |-> None, list |-> <<>>, bool |-> FALSE,
     init |-> [kind |-> "object", pairs |-> <<>>]]

NoBlobOp == [op |-> "new", src |-> Blob_new(<<>>), start |-> 0, end |-> 0, ops |-> 0]

EngineInit ==
    /\ opts = defaultRequestOptions
    /\ reqs = <<>>
    /\ built = 0
    /\ attempts = <<>>
    /\ sigAborted = FALSE

HeadersInit ==
    /\ table = <<>>
    /\ ret = NoCall
    /\ prevOp = "none"

BlobInit ==
    /\ blob = Blob_new(<<>>)
    /\ blobOp = NoBlobOp

Init ==
    /\ EngineInit
    /\ HeadersInit
    /\ BlobInit
    /\ response = NewResponse(200, <<>>)

(***************************************************************************)
(* The caller: the constructor and the builders.                           *)
(***************************************************************************)
Construct(present, source) ==
    /\ attempts = <<>>
    /\ built + Cardinality(present) <= MaxConfig
    /\ built' = built + Cardinality(present)
    /\ LET options == ObjectAssign(opts, present, source)
       IN  /\ opts' = options
           /\ reqs' = Append(reqs, NewRequest(RequestUrl, options))
    /\ UNCHANGED <<attempts, sigAborted, headerVars, libVars>>

\* Rikuesuto.make(url, options) of a client built with no options: its
\* defaults are {} and its userAgent is RIKUESUTO_USER_AGENT
make(present, source) ==
    /\ attempts = <<>>
    /\ built + Cardinality(present) <= MaxConfig
    /\ built' = built + Cardinality(present)
    /\ LET options == ObjectAssign(opts, present, source)
           req == NewRequest(RequestUrl, options)
       IN  /\ opts' = options
           /\ reqs' = Append(reqs,
                  [req EXCEPT !.headers =
                      Headers_append(@, StrUserAgent, RIKUESUTO_USER_AGENT)])
    /\ UNCHANGED <<attempts, sigAborted, headerVars, libVars>>

Builder(r) ==
    /\ attempts = <<>>
    /\ built < MaxConfig
    /\ built' = built + 1
    /\ UNCHANGED <<attempts, sigAborted, headerVars, libVars>>

method(r, m) ==
    /\ Builder(r)
    /\ reqs' = [reqs EXCEPT ![r].method = m]
    /\ UNCHANGED opts

body(r, value) ==
    /\ Builder(r)
    /\ reqs' = [reqs EXCEPT ![r].body = value]
    /\ UNCHANGED opts

timeout(r, ms) ==
    /\ Builder(r)
    /\ opts' = [opts EXCEPT !.timeout = Num(ms)]
    /\ UNCHANGED reqs

signal(r, s) ==
    /\ Builder(r)
    /\ reqs' = [reqs EXCEPT ![r].signal = s]
    /\ UNCHANGED opts

set(r, name, value) ==
    /\ Builder(r)
    /\ Len(value) > 0
    /\ validateHeaderName(name) /\ validateHeaderValue(value)
    /\ reqs' = [reqs EXCEPT ![r].headers = Headers_append(@, name, value)]
    /\ UNCHANGED opts

follow(r, count) ==
    /\ Builder(r)
    /\ opts' = [opts EXCEPT !.follow = IF Truthy(count) THEN count
                                       ELSE Bool(~Truthy(opts.follow))]
    /\ UNCHANGED reqs

compress(r) ==
    /\ Builder(r)
    /\ opts' = [opts EXCEPT !.compressData = Bool(~Truthy(opts.compressData))]
    /\ UNCHANGED reqs

(***************************************************************************)
(* exec() called by the caller, and the events of the exchange.            *)
(***************************************************************************)
exec(r) ==
    /\ attempts = <<>>
    /\ LET rq == AfterExec(reqs[r])
       IN  /\ reqs' = [reqs EXCEPT ![r] = rq]
           /\ attempts' = <<NewAttempt(r, rq, opts, sigAborted, 0)>>
    /\ UNCHANGED <<opts, built, sigAborted, headerVars, libVars>>

\* the response shapes the transport delivers: status and rawHeaders
Responses ==
    { [status |-> 200, rawHeaders |-> <<>>],
      [status |-> 200, rawHeaders |-> <<StrContentEncodingMixed, StrGzip>>],
      [status |-> 200, rawHeaders |-> <<StrContentEncodingMixed, StrDeflate>>],
      [status |-> 302, rawHeaders |-> <<StrLocation, StrNext>>] }

\* lines 262-266: the stream the response is piped into
PipedInto(options, encoding) ==
    IF ~Truthy(options.compressData) THEN "none"
    ELSE IF encoding = Some(StrGzip) THEN "createGunzip"
    ELSE IF encoding = Some(StrDeflate) THEN "createDeflate"
    ELSE "none"

\* a redirect check that does not look at the follow option
FollowsRedirectAlways(rq, options, headers) ==
    TruthyStr(Headers_get(headers, StrLocation))

\* lines 269-270: is this response answered with a redirect hop
FollowsRedirect(rq, options, headers) ==
    /\ TruthyStr(Headers_get(headers, StrLocation))
    /\ Truthy(options.follow)
    /\ ~StrictEq(Num(rq.redirects), options.follow)

\* line 277: the redirect count given to the Request of the hop
HopRedirects(rq) == rq.redirects

\* the "response" handler, lines 261-296
OnResponse(a, shape) ==
    LET att == attempts[a]
        rq == reqs[att.req]
        encoding == IncomingHeader(shape.rawHeaders, StrContentEncoding)
        headers == fromRawHeaders(shape.rawHeaders)
        got == [att EXCEPT !.status = shape.status,
                           !.encoding = encoding,
                           !.location = Headers_get(headers, StrLocation),
                           !.piped = PipedInto(opts, encoding)]
    IN  /\ att.wired /\ att.conn = "open" /\ ~att.aborted /\ att.resp = "none"
        /\ IF FollowsRedirect(rq, opts, headers)
           THEN /\ Len(attempts) < MaxAttempts
                /\ LET options == [opts EXCEPT
                                      !.headers = [kind |-> "Headers", pairs |-> rq.headers],
                                      !.body = rq.body]
                       location == Headers_get(headers, StrLocation).str
                       made == [NewRequest(URLResolve(location, rq.url), options)
                                    EXCEPT !.redirects = HopRedirects(rq)]
                       hop == AfterExec(made)
                       h == Len(reqs) + 1
                   IN  /\ opts' = options
                       /\ reqs' = Append(reqs, hop)
                       /\ attempts' = Settled(Append(
                              [attempts EXCEPT ![a] =
                                  [got EXCEPT !.resp = "resumed",
                                              !.hop = Len(attempts) + 1,
                                              !.awaiting = TRUE]],
                              NewAttempt(h, hop, options, sigAborted, a)))
           ELSE /\ attempts' = [attempts EXCEPT ![a] = [got EXCEPT !.resp = "open"]]
                /\ UNCHANGED <<opts, reqs>>
        /\ UNCHANGED <<built, sigAborted, headerVars, libVars>>

Chunks == {7}

\* resp.on("data"), line 285, and Response._chunk
OnData(a, c) ==
    LET att == attempts[a]
    IN  /\ att.resp = "open" /\ ~att.aborted
        /\ Len(att.wire) < MaxChunks
        /\ attempts' = [attempts EXCEPT ![a] =
              [Response_chunk(att, <<c>>) EXCEPT !.wire = Append(att.wire, c)]]
        /\ UNCHANGED <<opts, reqs, built, sigAborted, headerVars, libVars>>

\* resp.resume(), line 278: the body of the redirected response keeps
\* arriving after the hop was started, and no listener takes its chunks
OnDiscard(a, c) ==
    LET att == attempts[a]
    IN  /\ att.resp = "resumed" /\ ~att.drained /\ ~att.aborted
        /\ Len(att.wire) < MaxChunks
        /\ attempts' = [attempts EXCEPT ![a].wire = Append(att.wire, c)]
        /\ UNCHANGED <<opts, reqs, built, sigAborted, headerVars, libVars>>

\* the redirected response reaches its end: nothing listens for it
OnDrained(a) ==
    LET att == attempts[a]
    IN  /\ att.resp = "resumed" /\ ~att.drained /\ ~att.aborted
        /\ attempts' = [attempts EXCEPT ![a].drained = TRUE]
        /\ UNCHANGED <<opts, reqs, built, sigAborted, headerVars, libVars>>

\* resp.on("end"), lines 287-290
OnEnd(a) ==
    LET att == attempts[a]
    IN  /\ att.resp = "open" /\ ~att.aborted
        /\ attempts' = Settled([attempts EXCEPT ![a] =
              [removeEventListener(att) EXCEPT
                  !.resp = "ended",
                  !.promise = Settle(att.promise, Fulfilled(a))]])
        /\ UNCHANGED <<opts, reqs, built, sigAborted, headerVars, libVars>>

\* resp.on("error"), lines 292-295
OnStreamError(a) ==
    LET att == attempts[a]
    IN  /\ att.resp = "open"
        /\ attempts' = Settled([attempts EXCEPT ![a] =
              [finalize(att) EXCEPT
                  !.resp = "error",
                  !.promise = Settle(att.promise,
                      HttpError(att.status, reqs[att.req].url))]])
        /\ UNCHANGED <<opts, reqs, built, sigAborted, headerVars, libVars>>

\* req.on("error"), lines 299-302
OnRequestError(a) ==
    LET att == attempts[a]
    IN  /\ att.wired /\ att.conn = "open" /\ att.resp = "none"
        /\ attempts' = Settled([attempts EXCEPT ![a] =
              [finalize(att) EXCEPT
                  !.conn = "failed",
                  !.promise = Settle(att.promise, TransportError)]])
        /\ UNCHANGED <<opts, reqs, built, sigAborted, headerVars, libVars>>

\* a timer whose callback does nothing once its response was redirected
OnTimeoutUnlessRedirected(a) ==
    LET att == attempts[a]
    IN  /\ att.timer = "armed"
        /\ \A b \in 1..(a - 1) : attempts[b].timer # "armed"
        /\ attempts' = Settled([attempts EXCEPT ![a] =
              IF att.hop # 0 THEN [att EXCEPT !.timer = "fired"]
              ELSE [finalize(att) EXCEPT
                       !.timer = "fired",
                       !.promise = Settle(att.promise,
                           Rejected("TimeoutError", reqs[att.req].url, 0))]])
        /\ UNCHANGED <<opts, reqs, built, sigAborted, headerVars, libVars>>

\* the setTimeout callback, lines 305-308; every timer of one exchange runs
\* for the same _options.timeout, so they fire in the order they were armed
OnTimeout(a) ==
    LET att == attempts[a]
    IN  /\ att.timer = "armed"
        /\ \A b \in 1..(a - 1) : attempts[b].timer # "armed"
        /\ attempts' = Settled([attempts EXCEPT ![a] =
              [finalize(att) EXCEPT
                  !.timer = "fired",
                  !.promise = Settle(att.promise,
                      Rejected("TimeoutError", reqs[att.req].url, 0))]])
        /\ UNCHANGED <<opts, reqs, built, sigAborted, headerVars, libVars>>

\* the abort signal fires: every registered listener runs aborted()
OnAbort ==
    /\ ~sigAborted
    /\ \E r \in DOMAIN reqs : reqs[r].signal # "undefined"
    /\ sigAborted' = TRUE
    /\ attempts' = Settled([a \in DOMAIN attempts |->
                       IF attempts[a].listener THEN aborted(attempts[a])
                       ELSE attempts[a]])
    /\ UNCHANGED <<opts, reqs, built, headerVars, libVars>>

Next ==
    \/ \E present \in SUBSET OptKeys, source \in OptionValues :
           reqs = <<>> /\ Construct(present, source)
    \/ \E r \in DOMAIN reqs : method(r, "post")
    \/ \E r \in DOMAIN reqs : body(r, "object")
    \/ \E r \in DOMAIN reqs : timeout(r, 50)
    \/ \E r \in DOMAIN reqs : signal(r, "sig")
    \/ \E r \in DOMAIN reqs : set(r, StrXAUpper, StrOne)
    \/ \E r \in DOMAIN reqs, count \in {Undefined} \cup {Num(n) : n \in 1..MaxFollow} :
           follow(r, count)
    \/ \E r \in DOMAIN reqs : compress(r)
    \/ \E r \in DOMAIN reqs : exec(r)
    \/ \E a \in DOMAIN attempts, shape \in Responses : OnResponse(a, shape)
    \/ \E a \in DOMAIN attempts, c \in Chunks : OnData(a, c)
    \/ \E a \in DOMAIN attempts : OnEnd(a)
    \/ \E a \in DOMAIN attempts : OnStreamError(a)
    \/ \E a \in DOMAIN attempts : OnRequestError(a)
    \/ \E a \in DOMAIN attempts : OnTimeout(a)
    \/ OnAbort

Spec == Init /\ [][Next]_vars

(***************************************************************************)
(* The caller also sets a content-type of its own, and calls exec() again  *)
(* on the same Request once no connection of the exchange is open; the     *)
(* exchanges are answered, redirected or fail to connect.                  *)
(***************************************************************************)
execAgain(r) ==
    /\ attempts # <<>> /\ Len(attempts) < MaxAttempts
    /\ r = attempts[1].req
    /\ \A a \in DOMAIN attempts :
           ~(attempts[a].wired /\ attempts[a].conn = "open"
               /\ attempts[a].resp \in {"none", "open"} /\ ~attempts[a].aborted)
    /\ LET rq == AfterExec(reqs[r])
       IN  /\ reqs' = [reqs EXCEPT ![r] = rq]
           /\ attempts' = Append(attempts, NewAttempt(r, rq, opts, sigAborted, 0))
    /\ UNCHANGED <<opts, built, sigAborted, headerVars, libVars>>

NextRepeat ==
    \/ \E present \in SUBSET OptKeys, source \in OptionValues :
           reqs = <<>> /\ Construct(present, source)
    \/ \E r \in DOMAIN reqs : body(r, "object")
    \/ \E r \in DOMAIN reqs : set(r, StrContentType, StrTextPlain)
    \/ \E r \in DOMAIN reqs : follow(r, Undefined)
    \/ \E r \in DOMAIN reqs : exec(r)
    \/ \E r \in DOMAIN reqs : execAgain(r)
    \/ \E a \in DOMAIN attempts, shape \in Responses : OnResponse(a, shape)
    \/ \E a \in DOMAIN attempts : OnEnd(a)
    \/ \E a \in DOMAIN attempts : OnRequestError(a)

SpecRepeat == Init /\ [][NextRepeat]_vars

(***************************************************************************)
(* What is sent: the Request comes from the constructor or from a client,  *)
(* the caller gives it a body of any kind and a user-agent of its own.     *)
(***************************************************************************)
StrMine == <<109, 105, 110, 101>>

BodyKinds == {"object", "buffer", "string"}

NextSend ==
    \/ \E present \in SUBSET {"headers", "method"}, source \in OptionValues :
           reqs = <<>> /\ Construct(present, source)
    \/ \E present \in SUBSET {"headers", "method"}, source \in OptionValues :
           reqs = <<>> /\ make(present, source)
    \/ \E r \in DOMAIN reqs, value \in BodyKinds : body(r, value)
    \/ \E r \in DOMAIN reqs : set(r, StrUserAgent, StrMine)
    \/ \E r \in DOMAIN reqs : exec(r)
    \/ \E a \in DOMAIN attempts, shape \in Responses : OnResponse(a, shape)
    \/ \E a \in DOMAIN attempts : OnEnd(a)
    \/ \E a \in DOMAIN attempts : OnRequestError(a)

SpecSend == Init /\ [][NextSend]_vars

(***************************************************************************)
(* The bodies of the responses: a redirected response is drained while its *)
(* hop runs, and the response that is kept receives its chunks in order.   *)
(***************************************************************************)
StreamChunks == {7, 8}

RedirectChunks == {9}

NextStream ==
    \/ \E present \in SUBSET {"follow"}, source \in OptionValues :
           reqs = <<>> /\ Construct(present, source)
    \/ \E r \in DOMAIN reqs : follow(r, Undefined)
    \/ \E r \in DOMAIN reqs : exec(r)
    \/ \E a \in DOMAIN attempts, shape \in Responses : OnResponse(a, shape)
    \/ \E a \in DOMAIN attempts, c \in StreamChunks : OnData(a, c)
    \/ \E a \in DOMAIN attempts, c \in RedirectChunks : OnDiscard(a, c)
    \/ \E a \in DOMAIN attempts : OnDrained(a)
    \/ \E a \in DOMAIN attempts : OnEnd(a)
    \/ \E a \in DOMAIN attempts : OnStreamError(a)

SpecStream == Init /\ [][NextStream]_vars

(***************************************************************************)
(* Several Requests configured side by side, before any of them runs.      *)
(***************************************************************************)
MaxRequests == 2

NextShared ==
    \/ \E present \in SUBSET OptKeys, source \in OptionValues :
           Len(reqs) < MaxRequests /\ Construct(present, source)
    \/ \E r \in DOMAIN reqs : method(r, "post")
    \/ \E r \in DOMAIN reqs : body(r, "object")
    \/ \E r \in DOMAIN reqs : timeout(r, 50)
    \/ \E r \in DOMAIN reqs : signal(r, "sig")
    \/ \E r \in DOMAIN reqs : set(r, StrXAUpper, StrOne)
    \/ \E r \in DOMAIN reqs, count \in {Undefined} \cup {Num(n) : n \in 1..MaxFollow} :
           follow(r, count)
    \/ \E r \in DOMAIN reqs : compress(r)

SpecShared == Init /\ [][NextShared]_vars

(***************************************************************************)
(* A Headers instance called directly: each call goes through the Proxy,   *)
(* which throws before the list is touched when validation fails.          *)
(***************************************************************************)
HeaderNames ==
    {StrXA, StrXAUpper, StrContentEncoding, StrContentEncodingMixed, StrBadName}

HeaderValues == {StrOne, StrGZipMixed, StrBadValue}

Call(op, name, value) ==
    [NoCall EXCEPT !.op = op, !.name = name, !.value = value,
                   !.threw = Thrown(name, value)]

CallAppend(name, value) ==
    /\ Len(table) < MaxPairs
    /\ table' = IF Thrown(name, value) = "" THEN Headers_append(table, name, value)
                ELSE table
    /\ ret' = [Call("append", name, value) EXCEPT
                  !.fresh = \A i \in DOMAIN table :
                               toLowerCase(table[i][1]) # toLowerCase(name)]
    /\ prevOp' = ret.op
    /\ UNCHANGED <<engineVars, libVars>>

CallSet(name, value) ==
    /\ Len(table) < MaxPairs
    /\ table' = IF Thrown(name, value) = "" THEN Headers_set(table, name, value)
                ELSE table
    /\ ret' = Call("set", name, value)
    /\ prevOp' = ret.op
    /\ UNCHANGED <<engineVars, libVars>>

CallDelete(name) ==
    /\ table' = IF Thrown(name, <<>>) = "" THEN Headers_delete(table, name) ELSE table
    /\ ret' = Call("delete", name, <<>>)
    /\ prevOp' = ret.op
    /\ UNCHANGED <<engineVars, libVars>>

CallGet(name) ==
    /\ ret' = [Call("get", name, <<>>) EXCEPT
                  !.out = IF Thrown(name, <<>>) = "" THEN Headers_get(table, name)
                          ELSE None]
    /\ prevOp' = ret.op
    /\ UNCHANGED <<table, engineVars, libVars>>

CallKeys ==
    /\ table' = USPSort(table)
    /\ ret' = [NoCall EXCEPT !.op = "keys", !.list = Headers_keys(table)]
    /\ prevOp' = ret.op
    /\ UNCHANGED <<engineVars, libVars>>

\* raw(), lines 181-186: keys() sorts the list, and the object returned has
\* one entry for each key
CallRaw ==
    /\ table' = USPSort(table)
    /\ ret' = [NoCall EXCEPT !.op = "raw", !.list = Headers_keys(table)]
    /\ prevOp' = ret.op
    /\ UNCHANGED <<engineVars, libVars>>

CallHas(name) ==
    /\ ret' = [Call("has", name, <<>>) EXCEPT
                  !.bool = Thrown(name, <<>>) = "" /\ Headers_has(table, name)]
    /\ prevOp' = ret.op
    /\ UNCHANGED <<table, engineVars, libVars>>

CallGetAll(name) ==
    /\ ret' = [Call("getAll", name, <<>>) EXCEPT
                  !.list = IF Thrown(name, <<>>) = "" THEN Headers_getAll(table, name)
                           ELSE <<>>]
    /\ prevOp' = ret.op
    /\ UNCHANGED <<table, engineVars, libVars>>

\* the pairs initializers are made of, and the initializers: an array of
\* pairs, a plain object (its keys are distinct), or the table itself
InitPairs == {<<n, v>> : n \in {StrXAUpper, StrBadName}, v \in {StrOne, StrBadValue}}

RECURSIVE SeqsUpTo(_, _)
SeqsUpTo(S, n) ==
    IF n = 0 THEN {<<>>}
    ELSE LET shorter == SeqsUpTo(S, n - 1)
         IN  shorter \cup {Append(s, x) : s \in shorter, x \in S}

HeaderInits(current) ==
    LET lists == SeqsUpTo(InitPairs, MaxPairs)
    IN  {[kind |-> "iterable", pairs |-> l] : l \in lists}
        \cup {[kind |-> "object", pairs |-> l] :
                 l \in {m \in lists : \A i, j \in DOMAIN m : m[i][1] = m[j][1] => i = j}}
        \cup {[kind |-> "Headers", pairs |-> current]}

\* new Headers(init), lines 36-85, as the first thing done: when the
\* constructor throws there is no new instance, and the model keeps the
\* empty table it had
CallNew(init) ==
    /\ ret.op = "new"
    /\ table' = IF Headers_newThrown(init) = "" THEN Headers_new(init) ELSE table
    /\ ret' = [NoCall EXCEPT !.op = "construct", !.init = init,
                             !.threw = Headers_newThrown(init)]
    /\ prevOp' = ret.op
    /\ UNCHANGED <<engineVars, libVars>>

NextHeaders ==
    \/ \E name \in HeaderNames, value \in HeaderValues : CallAppend(name, value)
    \/ \E name \in HeaderNames, value \in HeaderValues : CallSet(name, value)
    \/ \E name \in HeaderNames : CallDelete(name)
    \/ \E name \in HeaderNames : CallGet(name)
    \/ \E name \in HeaderNames : CallHas(name)
    \/ \E name \in HeaderNames : CallGetAll(name)
    \/ \E init \in HeaderInits(table) : CallNew(init)
    \/ CallKeys
    \/ CallRaw

SpecHeaders == Init /\ [][NextHeaders]_vars

(***************************************************************************)
(* fromRawHeaders applied to one flat list.                                *)
(***************************************************************************)
RawStrings == {StrXAUpper, StrBadName, StrOne, StrBadValue}

RawLists == SeqsUpTo(RawStrings, 2 * MaxPairs)

InitRaw ==
    /\ EngineInit
    /\ BlobInit
    /\ response = NewResponse(200, <<>>)
    /\ table = <<>>
    /\ ret \in {[NoCall EXCEPT !.op = "rawHeaders",
                                !.init = [kind |-> "flat", pairs |-> flat]] :
                   flat \in RawLists}
    /\ prevOp = "none"

CallFromRawHeaders ==
    /\ ret.op = "rawHeaders"
    /\ LET flat == ret.init.pairs
       IN  /\ table' = IF fromRawHeadersThrown(flat) = "" THEN fromRawHeaders(flat)
                       ELSE table
           /\ ret' = [ret EXCEPT !.op = "fromRawHeaders",
                                 !.threw = fromRawHeadersThrown(flat)]
    /\ prevOp' = ret.op
    /\ UNCHANGED <<engineVars, libVars>>

NextRaw == CallFromRawHeaders

SpecRaw == InitRaw /\ [][NextRaw]_vars

(***************************************************************************)
(* A Blob built from Buffers, wrapped into another Blob, and sliced.       *)
(***************************************************************************)
BlobBuffers == {<<1, 2>>, <<3, 4, 5>>}

BlobParts == {[i \in DOMAIN s |-> Buffer(s[i])] : s \in SeqsUpTo(BlobBuffers, MaxParts)}

\* the indices given to slice(): every position of the Blob, one before the
\* first and one past the last, counted from the start and from the end
SliceArgs(b) == (0 - b.size - 1)..(b.size + 1)

BlobNew(parts) ==
    /\ blobOp.ops = 0
    /\ blob' = Blob_new(parts)
    /\ blobOp' = [NoBlobOp EXCEPT !.ops = 1]
    /\ UNCHANGED <<engineVars, headerVars, response>>

\* new Blob([blob, buffer]) and new Blob([buffer, blob])
BlobWrap(bytes, first) ==
    /\ blobOp.ops \in 1..(MaxBlobOps - 1)
    /\ Depth(blob) < MaxDepth
    /\ blob' = Blob_new(IF first THEN <<blob, Buffer(bytes)>> ELSE <<Buffer(bytes), blob>>)
    /\ blobOp' = [NoBlobOp EXCEPT !.ops = blobOp.ops + 1]
    /\ UNCHANGED <<engineVars, headerVars, response>>

BlobSlice(start, end) ==
    /\ blobOp.ops \in 1..(MaxBlobOps - 1)
    /\ blob' = Blob_slice(blob, start, end)
    /\ blobOp' = [op |-> "slice", src |-> blob, start |-> start, end |-> end,
                  ops |-> blobOp.ops + 1]
    /\ UNCHANGED <<engineVars, headerVars, response>>

NextBlob ==
    \/ \E parts \in BlobParts : BlobNew(parts)
    \/ \E bytes \in BlobBuffers, first \in BOOLEAN : BlobWrap(bytes, first)
    \/ \E start \in SliceArgs(blob), end \in SliceArgs(blob) : BlobSlice(start, end)

SpecBlob == Init /\ [][NextBlob]_vars

(***************************************************************************)
(* A Response filled chunk by chunk and read through its getters.          *)
(***************************************************************************)
StatusCodes == {199, 200, 201, 204, 299, 300, 404}

ResponseHeaders ==
    {<<>>, <<StrContentTypeMixed, StrApplicationJson>>, <<StrContentTypeMixed, StrTextPlain>>}

\* the bytes of "1", "{" and "}"
BodyBytes == {49, 123, 125}

InitResponse ==
    /\ EngineInit
    /\ HeadersInit
    /\ BlobInit
    /\ response \in {NewResponse(s, h) : s \in StatusCodes, h \in ResponseHeaders}

ResponseChunk(data) ==
    /\ Len(response.buf) < MaxBody
    /\ response' = [Response_chunk(response, data) EXCEPT
                        !.read = "none", !.ok = FALSE, !.json = NewResponse(0, <<>>).json]
    /\ UNCHANGED <<engineVars, headerVars, blob, blobOp>>

ReadOk ==
    /\ response' = [response EXCEPT !.read = "ok", !.ok = Response_ok(response),
                                    !.json = NewResponse(0, <<>>).json]
    /\ UNCHANGED <<engineVars, headerVars, blob, blobOp>>

ReadJson ==
    /\ response' = [response EXCEPT !.read = "json", !.ok = FALSE,
                                    !.json = Response_json(response)]
    /\ UNCHANGED <<engineVars, headerVars, blob, blobOp>>

NextResponse ==
    \/ \E b \in BodyBytes : ResponseChunk(<<b>>)
    \/ ReadOk
    \/ ReadJson

SpecResponse == InitResponse /\ [][NextResponse]_vars

(***************************************************************************)
(* Properties of the exchange (Spec).                                      *)
(***************************************************************************)
\* a connection that is in flight and that nobody has aborted
InFlight(att) ==
    att.wired /\ att.conn = "open" /\ att.resp \in {"none", "open"} /\ ~att.aborted

\* an attempt that has ended: stream end, hand-off to a hop, or a failure
Ended(att) ==
    \/ att.resp \in {"ended", "resumed", "error"}
    \/ att.conn = "failed"
    \/ att.promise.state = "rejected"

EveryResponseRedirects ==
    \A a \in DOMAIN attempts :
        attempts[a].resp # "none" => TruthyStr(attempts[a].location)

\* C1: with follow a numeric cap N and every response carrying Location, one
\* exec() issues at most N requests beyond the first, the response that
\* reaches the cap is returned unfollowed, and the Response returned is the
\* last hop's.
C1_RedirectCap ==
    (opts.follow.t = "number" /\ EveryResponseRedirects) =>
        /\ Len(attempts) <= opts.follow.n + 1
        /\ \A a \in DOMAIN attempts :
               (a = opts.follow.n + 1 /\ attempts[a].resp # "none")
                   => attempts[a].resp # "resumed"
        /\ (attempts # <<>> /\ attempts[1].promise.state = "fulfilled")
               => attempts[1].promise.res = Len(attempts)

\* C2: once the timer of an attempt has fired the connection has been
\* aborted, and when the transport delivered nothing (no response, no
\* transport error, no abort signal) exec() has failed with TimeoutError
\* carrying the request URL.
C2_TimeoutFails ==
    \A a \in DOMAIN attempts :
        attempts[a].timer = "fired" =>
            /\ attempts[a].aborted
            /\ (attempts[a].resp = "none" /\ attempts[a].conn = "open" /\ ~sigAborted)
                   => attempts[a].promise =
                          Rejected("TimeoutError", reqs[attempts[a].req].url, 0)

C2_Witness ==
    \E a \in DOMAIN attempts :
        /\ attempts[a].timer = "fired" /\ attempts[a].resp = "none"
        /\ attempts[a].promise.error = "TimeoutError"
        /\ attempts[a].promise.url = RequestUrl
        /\ attempts[a].aborted

\* C3: for every exec() call, the first of stream end, stream error, timeout
\* and abort to happen settles its promise with its own outcome, and a
\* settled promise is never changed by a later event.
C3_FirstEventWins ==
    [][\A a \in DOMAIN attempts :
          LET old == attempts[a]
              new == attempts'[a]
          IN  /\ old.promise.state # "pending" => new.promise = old.promise
              /\ (old.promise.state = "pending" /\ old.resp = "open" /\ new.resp = "ended")
                     => new.promise = Fulfilled(a)
              /\ (old.promise.state = "pending" /\ old.resp = "open" /\ new.resp = "error")
                     => new.promise = Rejected("HttpError", reqs[old.req].url, old.status)
              /\ (old.promise.state = "pending" /\ old.timer = "armed" /\ new.timer = "fired")
                     => new.promise = Rejected("TimeoutError", reqs[old.req].url, 0)
              /\ (old.promise.state = "pending" /\ old.listener /\ ~sigAborted /\ sigAborted')
                     => new.promise = Rejected("AbortError", URL(<<>>), 0)
      ]_vars

\* the stream ended first and the timer fired afterwards
C3_Witness ==
    \E a \in DOMAIN attempts :
        /\ attempts[a].promise = Fulfilled(a)
        /\ attempts[a].resp = "ended"
        /\ attempts[a].timer = "fired"

\* C4: when an attempt has ended by any exit path, its timeout timer is
\* cancelled and its abort listener is removed.
C4_TornDown ==
    \A a \in DOMAIN attempts :
        Ended(attempts[a]) => attempts[a].timer # "armed" /\ ~attempts[a].listener

\* C5: whenever an exec() has failed with TimeoutError or AbortError, the
\* connection in flight (its own or a redirect hop's) has been aborted.
C5_CancelAbortsInFlight ==
    \A a \in DOMAIN attempts :
        (attempts[a].promise.state = "rejected"
            /\ attempts[a].promise.error \in {"TimeoutError", "AbortError"})
        => \A b \in a..Len(attempts) : ~InFlight(attempts[b])

\* C6: an error on the first attempt or on any redirect hop rejects the
\* promise the caller's exec() returned.
C6_ErrorsSurface ==
    \A a \in DOMAIN attempts :
        attempts[a].promise.state = "rejected" => attempts[1].promise.state # "pending"

\* C8: the request of a redirect hop has the method, the headers and the
\* body of the request that received the redirect.
C8_HopKeepsRequest ==
    \A a \in DOMAIN attempts :
        (attempts[a].hop # 0 /\ attempts[attempts[a].hop].wired) =>
            LET hop == attempts[attempts[a].hop]
            IN  /\ hop.sent.method = attempts[a].sent.method
                /\ hop.sent.headers = attempts[a].sent.headers
                /\ hop.sent.body = attempts[a].sent.body

\* C9: with compressData enabled and content-encoding gzip or deflate, the
\* Response buffer is the decompressed form of the bytes received.
C9_BufferDecompressed ==
    \A a \in DOMAIN attempts :
        (Truthy(opts.compressData)
            /\ attempts[a].resp \in {"open", "ended", "error"}
            /\ attempts[a].encoding \in {Some(StrGzip), Some(StrDeflate)})
        => attempts[a].buf = Decompress(attempts[a].encoding, attempts[a].wire)

\* C20: the redirect counter of the Request built for a hop is one greater
\* than the counter of the Request that received the redirect, the first
\* Request starting at 0.
C20_HopCounterIncrements ==
    /\ attempts # <<>> => reqs[attempts[1].req].redirects = 0
    /\ \A a \in DOMAIN attempts :
           attempts[a].hop # 0 =>
               reqs[attempts[attempts[a].hop].req].redirects
                   = reqs[attempts[a].req].redirects + 1

(***************************************************************************)
(* Properties of exec() called again (SpecRepeat).                         *)
(***************************************************************************)
\* the values a header has in the header object given to http.request
SentValues(headers, name) ==
    LET hit == {i \in DOMAIN headers : headers[i][1] = name}
    IN  IF hit = {} THEN <<>> ELSE headers[CHOOSE i \in hit : TRUE][2]

\* C19: every exec() call, the first one, a later one on the same Request
\* and the one of a redirect hop, sends a plain object body JSON-serialized;
\* the content-type it sends is what the Request held before the call when
\* it held one, application/json when it held none and the body is a plain
\* object, and none otherwise.
C19_ContentTypeInferredOnce ==
    [][Len(attempts') = Len(attempts) + 1 =>
          LET new == attempts'[Len(attempts')]
              before == IF new.parent = 0 THEN reqs[new.req]
                        ELSE reqs[attempts[new.parent].req]
              given == Headers_getAll(before.headers, StrContentType)
          IN  /\ (new.wired /\ before.body = "object")
                     => new.sent.body = [enc |-> "JSON.stringify", body |-> "object"]
              /\ SentValues(new.sent.headers, StrContentType)
                     = IF given # <<>> THEN given
                       ELSE IF before.body = "object" THEN <<StrApplicationJson>>
                       ELSE <<>>
      ]_vars

\* exec() has run twice on the Request of the caller, which holds a plain
\* object body and was given no content-type: the second call sent
\* application/json once
C19_Witness ==
    \E a \in DOMAIN attempts :
        /\ a > 1 /\ attempts[a].parent = 0 /\ attempts[a].req = attempts[1].req
        /\ attempts[a].sent.body.enc = "JSON.stringify"
        /\ SentValues(attempts[a].sent.headers, StrContentType) = <<StrApplicationJson>>
        /\ SentValues(attempts[1].sent.headers, StrContentType) = <<StrApplicationJson>>

(***************************************************************************)
(* Properties of Headers (SpecHeaders).                                    *)
(***************************************************************************)
\* C10: append(name, value) on a table with no value for the name, followed
\* by get(name) with the name in any letter case, returns the value, which
\* is lowercased exactly when the name is content-encoding.
C10_AppendGetRoundTrip ==
    [][(/\ ret.op = "append" /\ ret.threw = "" /\ ret.fresh
        /\ ret'.op = "get"
        /\ toLowerCase(ret'.name) = toLowerCase(ret.name))
       => ret'.out = Some(IF toLowerCase(ret.name) = StrContentEncoding
                          THEN toLowerCase(ret.value)
                          ELSE ret.value)
      ]_vars

C10_Witness ==
    /\ prevOp = "append" /\ ret.op = "get"
    /\ ret.name = StrContentEncoding
    /\ table = <<<<StrContentEncoding, StrGZipMixed>>>>
    /\ ret.out = Some(StrGzip)

\* the grammar of header names and of header values as the specification
\* gives them: token characters; tab, printable ASCII and Latin-1 supplement
SpecTokenChar(c) ==
    \/ c \in 48..57 \/ c \in 65..90 \/ c \in 97..122
    \/ c \in {33, 35, 36, 37, 38, 39, 42, 43, 45, 46, 94, 95, 96, 124, 126, 34}

Token(name) == Len(name) > 0 /\ \A i \in DOMAIN name : SpecTokenChar(name[i])

ValueOk(value) ==
    \A i \in DOMAIN value : value[i] = 9 \/ value[i] \in 32..126 \/ value[i] \in 128..255

NameCalls == {"append", "set", "delete", "has", "getAll"}

C12_KeysSortedDistinct ==
    ret.op = "keys" =>
        /\ \A i \in 1..(Len(ret.list) - 1) : StrLess(ret.list[i], ret.list[i + 1])
        /\ {ret.list[i] : i \in DOMAIN ret.list}
              = {toLowerCase(table[i][1]) : i \in DOMAIN table}

\* content-encoding was stored after x-a and keys() lists it before x-a
C12_Witness ==
    /\ ret.op = "keys"
    /\ prevOp \in {"append", "set", "delete"}
    /\ ret.list = <<StrContentEncoding, StrXA>>

\* the pairs of a flat list that pass validation, names lowercased
RECURSIVE ValidPairs(_)
ValidPairs(flat) ==
    IF Len(flat) < 2 THEN <<>>
    ELSE (IF Token(flat[1]) /\ ValueOk(flat[2])
          THEN <<<<toLowerCase(flat[1]), flat[2]>>>> ELSE <<>>)
         \o ValidPairs(SubSeq(flat, 3, Len(flat)))

\* C13: for a flat list of names alternating with values, fromRawHeaders
\* does not throw and returns the table of exactly the pairs that pass name
\* and value validation, in their order, names lowercased.
C13_RawHeadersDropInvalid ==
    (ret.op = "fromRawHeaders" /\ Len(ret.init.pairs) % 2 = 0) =>
        /\ ret.threw = ""
        /\ table = ValidPairs(ret.init.pairs)

\* <<"X-A", "1", "a b", "1">> gave the table of x-a alone
C13_Witness ==
    /\ ret.op = "fromRawHeaders"
    /\ ret.init.pairs = <<StrXAUpper, StrOne, StrBadName, StrOne>>
    /\ table = <<<<StrXA, StrOne>>>>

(***************************************************************************)
(* Properties of Blob (SpecBlob).                                          *)
(***************************************************************************)
Clamp(x, lo, hi) == IF x < lo THEN lo ELSE IF x > hi THEN hi ELSE x

\* the number of bytes a list of parts stands for: the length of a Buffer,
\* the size of a Blob
RECURSIVE PartsTotal(_)
PartsTotal(parts) ==
    IF Len(parts) = 0 THEN 0
    ELSE (IF parts[1].isBlob THEN parts[1].size ELSE Len(parts[1].bytes))
         + PartsTotal(Tail(parts))

\* an index of slice() resolved against a size: a negative index counts
\* from the end
Resolved(x, size) == IF x < 0 THEN Clamp(size + x, 0, size) ELSE Clamp(x, 0, size)

\* C14: a Blob built from parts of sizes s1..sn has size s1+...+sn, and
\* slice(a, b) has size max(r(b) - r(a), 0), where r resolves an index
\* against the size of the source: clamp(x, 0, size) for x >= 0 and
\* clamp(size + x, 0, size) for x < 0.
C14_SizeAndSliceSize ==
    /\ blobOp.op = "new" => blob.size = PartsTotal(blob.parts)
    /\ blobOp.op = "slice" =>
           blob.size = Max(Resolved(blobOp.end, blobOp.src.size)
                             - Resolved(blobOp.start, blobOp.src.size), 0)

\* C14 as stated: for a <= b, slice(a, b).size is clamp(b, 0, size) -
\* clamp(a, 0, size); for a > b the slice has size 0.
C14_SliceSizeClamped ==
    /\ blobOp.op = "new" => blob.size = PartsTotal(blob.parts)
    /\ blobOp.op = "slice" =>
           blob.size = IF blobOp.start <= blobOp.end
                       THEN Clamp(blobOp.end, 0, blobOp.src.size)
                              - Clamp(blobOp.start, 0, blobOp.src.size)
                       ELSE 0

\* slice(-4, 3) of a Blob of the two Buffers, 5 bytes: 2 bytes
C14_Witness ==
    /\ blobOp.op = "slice"
    /\ Len(blobOp.src.parts) = 2 /\ blobOp.src.size = 5
    /\ blobOp.start = 0 - 4 /\ blobOp.end = 3
    /\ blob.size = 2

\* C15: slice(0, size).data() gives the bytes that data() of the Blob it
\* was taken from gives.
C15_FullSliceSameData ==
    (blobOp.op = "slice" /\ blobOp.start = 0 /\ blobOp.end = blobOp.src.size)
        => Blob_data(blob) = Blob_data(blobOp.src)

\* C16: the size of every Blob, constructed or derived by slice, is the sum
\* of the sizes of the parts it holds.
C16_SizeIsSumOfParts == blob.size = PartsTotal(blob.parts)

(***************************************************************************)
(* Properties of Response (SpecResponse).                                  *)
(***************************************************************************)
\* C17: ok is true if and only if the status code is in 200..299.
C17_OkIffSuccess ==
    response.read = "ok" => (response.ok <=> response.statusCode \in 200..299)

\* C18: json is null whenever the status is 204 or the content-type header
\* is absent or is not exactly application/json, whatever the buffer holds;
\* otherwise it is what JSON.parse makes of the buffered text.
C18_JsonNeedsContentType ==
    response.read = "json" =>
        LET type == IncomingHeader(response.rawHeaders, StrContentType)
        IN  IF response.statusCode = 204 \/ ~type.some \/ type.str # StrApplicationJson
            THEN response.json = JSNull
            ELSE response.json = JSONParse(Response_text(response))

\* status 200, no content-type, the buffer holds the JSON text 1: json is null
C18_Witness ==
    /\ response.read = "json"
    /\ response.statusCode = 200 /\ response.rawHeaders = <<>>
    /\ response.buf = <<49>>
    /\ response.json = JSNull

(***************************************************************************)
(* Properties of Requests configured side by side (SpecShared).            *)
(***************************************************************************)
\* what exec() reads of a Request: its own fields and the fields of _options
ExecConfig(rs, options, r) ==
    [ method |-> rs[r].method,
      headers |-> rs[r].headers,
      body |-> rs[r].body,
      signal |-> rs[r].signal,
      timeout |-> options.timeout,
      follow |-> options.follow,
      compressData |-> options.compressData ]

\* C7: constructing a Request with options, or calling a builder on it,
\* never changes the configuration another Request executes with, and a new
\* Request gets the pristine defaults for the options it was not given.
C7_NoSharedConfig ==
    [][/\ \A r \in DOMAIN reqs :
             (\/ Len(reqs') > Len(reqs)
              \/ \E r2 \in DOMAIN reqs \ {r} :
                    \/ method(r2, "post") \/ body(r2, "object") \/ timeout(r2, 50)
                    \/ signal(r2, "sig") \/ set(r2, StrXAUpper, StrOne)
                    \/ compress(r2)
                    \/ \E count \in {Undefined} \cup {Num(n) : n \in 1..MaxFollow} :
                          follow(r2, count))
             => ExecConfig(reqs', opts', r) = ExecConfig(reqs, opts, r)
       /\ \A present \in SUBSET OptKeys, source \in OptionValues :
             Construct(present, source) =>
                 LET fresh == ObjectAssign(defaultRequestOptions, present, source)
                 IN  ExecConfig(reqs', opts', Len(reqs'))
                       = ExecConfig(<<NewRequest(RequestUrl, fresh)>>, fresh, 1)
      ]_vars


(***************************************************************************)
(* Properties of the redirect hop (Spec).                                  *)
(***************************************************************************)
\* C21: the URL a redirect hop requests is the Location value resolved
\* against the URL of the request that received the redirect, and nothing
\* is appended to it.
C21_HopUrlIsLocation ==
    \A a \in DOMAIN attempts :
        attempts[a].hop # 0 =>
            LET hop == attempts[attempts[a].hop]
            IN  /\ reqs[hop.req].url
                       = URLResolve(attempts[a].location.str, reqs[attempts[a].req].url)
                /\ hop.sent.url = reqs[hop.req].url

\* C22: following a redirect leaves the original Request unchanged: its URL,
\* method, headers, body and redirect counter, and the options object it
\* holds, are the same after the hop was created and executed as before.
C22_RedirectLeavesOriginal ==
    [][\A a \in DOMAIN attempts :
           (attempts[a].hop = 0 /\ attempts'[a].hop # 0) =>
               /\ reqs'[attempts[a].req] = reqs[attempts[a].req]
               /\ opts' = opts
      ]_vars

RECURSIVE FinalHop(_, _)
FinalHop(atts, a) == IF atts[a].hop = 0 THEN a ELSE FinalHop(atts, atts[a].hop)

\* C24: the timer armed by the first attempt stays armed when the response
\* is redirected, and when it fires while exec() has not settled and the
\* stream of the final hop has not ended, exec() fails with TimeoutError
\* for the URL of the original request.
C24_DeadlineCoversHops ==
    [][attempts # <<>> =>
          /\ (attempts[1].hop = 0 /\ attempts'[1].hop # 0)
                 => attempts'[1].timer = attempts[1].timer
          /\ (/\ attempts[1].hop # 0
              /\ attempts[1].timer = "armed" /\ attempts'[1].timer = "fired"
              /\ attempts[1].promise.state = "pending"
              /\ attempts[FinalHop(attempts, 1)].resp # "ended")
                 => attempts'[1].promise
                       = Rejected("TimeoutError", reqs[attempts[1].req].url, 0)
      ]_vars

\* the first timer has fired while a hop was in flight, and the promise of
\* the caller's exec() is rejected with TimeoutError
C24_Witness ==
    /\ Len(attempts) > 1 /\ attempts[1].hop # 0
    /\ attempts[1].timer = "fired"
    /\ attempts[1].promise.error = "TimeoutError"
    /\ attempts[FinalHop(attempts, 1)].resp \in {"none", "open"}
    /\ attempts[FinalHop(attempts, 1)].conn = "open"

(***************************************************************************)
(* Properties of the response bodies (SpecStream).                         *)
(***************************************************************************)
\* C25: when a redirect is followed, the body of the redirected response
\* has been discarded to its end before the attempt of the hop exists, and no
\* chunk of it is in the buffer of any Response.
C25_RedirectBodyDiscardedFirst ==
    /\ \A a \in DOMAIN attempts : attempts[a].hop # 0 => attempts[a].drained
    /\ \A a \in DOMAIN attempts :
           \A i \in DOMAIN attempts[a].buf : attempts[a].buf[i] \notin RedirectChunks

\* C26: each delivered chunk is appended at the end of the Response buffer,
\* the buffer changes in no other way and not at all once the stream has
\* ended, so the buffer is the concatenation of the chunks delivered, in
\* the order of delivery, and so is the buffer of the Response exec()
\* resolves with.
C26_ChunksAppendedInOrder ==
    [][\A a \in DOMAIN attempts :
           LET before == attempts[a]
               after == attempts'[a]
           IN  /\ Len(after.buf) >= Len(before.buf)
               /\ SubSeq(after.buf, 1, Len(before.buf)) = before.buf
               /\ before.resp = "ended" => after.buf = before.buf
               /\ after.resp \in {"open", "ended", "error"} => after.buf = after.wire
               /\ after.promise.state = "fulfilled" =>
                      /\ attempts'[after.promise.res].resp = "ended"
                      /\ attempts'[after.promise.res].buf
                             = attempts'[after.promise.res].wire
      ]_vars

\* exec() has resolved with a Response that received the chunks 7 and 8
C26_Witness ==
    \E a \in DOMAIN attempts :
        /\ attempts[a].promise.state = "fulfilled"
        /\ attempts[attempts[a].promise.res].resp = "ended"
        /\ attempts[attempts[a].promise.res].buf = <<7, 8>>

(***************************************************************************)
(* Properties of the failures and of the redirect switch (Spec).           *)
(***************************************************************************)
\* C27: an error of the response stream, on an exec() that has not settled,
\* rejects it with an HttpError that carries the status code of that
\* response and the URL of the request; an error of the transport before
\* any response rejects it with the error the transport emitted.
C27_ErrorKinds ==
    [][\A a \in DOMAIN attempts :
           LET before == attempts[a]
               after == attempts'[a]
           IN  /\ (before.resp = "open" /\ after.resp = "error"
                     /\ before.promise.state = "pending")
                  => /\ after.promise.state = "rejected"
                     /\ after.promise.error = "HttpError"
                     /\ after.promise.code = before.status
                     /\ after.promise.url = before.sent.url
               /\ (before.resp = "none" /\ before.conn = "open"
                     /\ after.conn = "failed" /\ before.promise.state = "pending")
                  => after.promise = TransportError
      ]_vars

\* the stream of a response with status 200 has failed, and exec() is
\* rejected with an HttpError for status 200 and the URL requested
C27_Witness ==
    \E a \in DOMAIN attempts :
        /\ attempts[a].resp = "error" /\ attempts[a].status = 200
        /\ attempts[a].promise = HttpError(200, attempts[a].sent.url)

\* C28: with follow false, exec() issues exactly one request, and a response
\* that carries a Location header is kept, not redirected: when its stream
\* ends it is the Response exec() resolves with.
C28_FollowOffReturnsRedirect ==
    (attempts # <<>> /\ opts.follow = Bool(FALSE)) =>
        /\ Len(attempts) = 1
        /\ attempts[1].hop = 0 /\ attempts[1].resp # "resumed"
        /\ (TruthyStr(attempts[1].location) /\ attempts[1].resp = "ended")
               => attempts[1].promise = Fulfilled(1)

\* with follow false, the 302 response with Location: /next was returned
C28_Witness ==
    /\ opts.follow = Bool(FALSE)
    /\ Len(attempts) = 1
    /\ attempts[1].status = 302 /\ attempts[1].location = Some(StrNext)
    /\ attempts[1].resp = "ended"
    /\ attempts[1].promise = Fulfilled(1)

(***************************************************************************)
(* Properties of what is sent (SpecSend).                                  *)
(***************************************************************************)
\* C29: a body that is a Buffer or a string is written to the transport as
\* it is: what req.write() is given is the body the caller supplied.
C29_BytesBodyUnchanged ==
    \A a \in DOMAIN attempts :
        (attempts[a].wired /\ reqs[attempts[a].req].body \in {"buffer", "string"})
        => attempts[a].sent.body
              = [enc |-> "raw", body |-> reqs[attempts[a].req].body]

\* C30: every request sent has a user-agent header; it is the engine default
\* alone when the caller supplied none, and the caller's value alone when
\* the caller supplied one.
C30_UserAgentSent ==
    \A a \in DOMAIN attempts :
        LET sent == SentValues(attempts[a].sent.headers, StrUserAgent)
            supplied == \E i \in DOMAIN sent : sent[i] = StrMine
        IN  /\ sent # <<>>
            /\ supplied => \A i \in DOMAIN sent : sent[i] = StrMine
            /\ ~supplied => sent = <<RIKUESUTO_USER_AGENT>>

(***************************************************************************)
(* Properties of the Headers table (SpecHeaders).                          *)
(***************************************************************************)
\* the values stored under a name, in the order of the table
ValuesOf(t, n) ==
    LET Named(pair) == pair[1] = n
        pairs == SelectSeq(t, Named)
    IN  [i \in DOMAIN pairs |-> pairs[i][2]]

\* the names a call can store
StoredNames == {toLowerCase(n) : n \in HeaderNames}

\* C31: append(name, value) adds one pair and the values of the name are
\* the ones stored before, in their order, followed by the new one;
\* set(name, value) leaves one pair for the name, with the new value; both
\* leave the values of every other name as they were.
C31_AppendAddsSetReplaces ==
    [][(ret'.op \in {"append", "set"} /\ ret'.threw = "") =>
          LET name == toLowerCase(ret'.name)
          IN  /\ ret'.op = "append" =>
                     /\ Len(table') = Len(table) + 1
                     /\ ValuesOf(table', name)
                            = ValuesOf(table, name) \o <<ret'.value>>
              /\ ret'.op = "set" => ValuesOf(table', name) = <<ret'.value>>
              /\ \A other \in StoredNames \ {name} :
                     ValuesOf(table', other) = ValuesOf(table, other)
      ]_vars

\* set() has just returned: its name has one pair, holding the new value,
\* and the table also holds a pair of another name
C31_Witness ==
    /\ ret.op = "set" /\ ret.threw = "" /\ prevOp = "append"
    /\ Len(table) = 2
    /\ ValuesOf(table, toLowerCase(ret.name)) = <<ret.value>>
    /\ \E i \in DOMAIN table : table[i][1] # toLowerCase(ret.name)

\* C32: after any sequence of construction, append, set, delete, keys and
\* raw calls, every name in the table is lowercase and matches the token
\* grammar, and every value in it passes the value validation.
C32_StoredPairsValid ==
    \A i \in DOMAIN table :
        /\ table[i][1] = toLowerCase(table[i][1])
        /\ Token(table[i][1])
        /\ ValueOk(table[i][2])

\* append() was called with the name X-A after another call that stores
\* pairs, and the table holds the new pair under x-a
C32_Witness ==
    /\ ret.op = "append" /\ ret.threw = "" /\ ret.name = StrXAUpper
    /\ prevOp \in {"append", "set", "construct"}
    /\ \E i \in DOMAIN table : table[i] = <<StrXA, ret.value>>

(***************************************************************************)
(* Properties of the data of a slice (SpecBlob).                           *)
(***************************************************************************)
\* C33: for a Blob whose data() is the byte sequence D, the data() of
\* slice(start, end) is D[s..e), s and e being start and end counted from
\* the end when negative and clamped to the size; the Blob sliced is a Blob
\* of several parts or of nested Blobs as well, and it is left as it was.
C33_SliceData ==
    (blobOp.op = "slice" /\ Blob_data(blobOp.src).threw = "") =>
        LET D == Blob_data(blobOp.src).bytes
            s == Resolved(blobOp.start, blobOp.src.size)
            e == Resolved(blobOp.end, blobOp.src.size)
        IN  Blob_data(blob)
              = [threw |-> "", bytes |-> IF e <= s THEN <<>> ELSE SubSeq(D, s + 1, e)]

====
